---- MODULE Spec2Model ----
(***************************************************************************)
(* indexed-cache (src/src/index.js): the IndexedCache instance, the page's *)
(* elements, the IndexedDB object store with its FIFO of readwrite         *)
(* transactions, and the promise chains of load().                         *)
(*                                                                         *)
(* One action is one run of the event loop: a public call, or the delivery *)
(* of one event (store request success/error, fetch response, blob decode, *)
(* element load/error, timer) together with every promise reaction that    *)
(* the handler resolves, since microtasks run to completion before the     *)
(* next event is delivered.                                                *)
(***************************************************************************)
EXTENDS Integers, Sequences, FiniteSets, TLC

\* ------------------------------------------------------------- bounds
NumEls   == 2      \* elements on the page, in document order
MaxLoads == 2      \* load() calls in one behaviour of DegradedSpec, LoadsSpec
MaxTime  == 1      \* clock ticks (minutes) after the page opened
MaxCalls == 1      \* public deleteKey()/prune()/clear() calls in ApiSpec
MaxNew   == 2      \* new IndexedCache() attempts in NewSpec

\* ------------------------------------------------------------- values
None     == "none"          \* null / undefined / attribute absent
NoExpiry == -1              \* obj.expiry: null
Null     == "null"          \* this.db = null
Open     == "open"          \* this.db = the opened IDBDatabase

Loads    == 1..MaxLoads

Unset     == <<"unset", "">>          \* the element has no src / href yet
SrcUrl(s) == <<"src", s>>             \* the original locator, obj.src
BlobUrl(b) == <<"blob", b>>           \* URL.createObjectURL(blob)

\* Properties every plain object inherits from Object.prototype; the
\* `in` operator of _prune answers true for them on any {} map.
ObjectPrototype == {"constructor"}

\* ------------------------------------------------------------- the page
\* One element's markup: tagName, the async/defer markers, and its
\* data-src, data-key, data-hash and data-expiry attributes.
ScriptTag == [tagName |-> "SCRIPT", async |-> FALSE, src |-> "u1",
              key |-> None, hash |-> None, expiry |-> None]
HashedScriptTag == [tagName |-> "SCRIPT", async |-> FALSE, src |-> "u2",
              key |-> "u1", hash |-> "h2", expiry |-> "1"]
AsyncScriptTag == [tagName |-> "SCRIPT", async |-> TRUE, src |-> "u2",
              key |-> None, hash |-> None, expiry |-> None]
ImgTag    == [tagName |-> "IMG", async |-> FALSE, src |-> "u2",
              key |-> "constructor", hash |-> None, expiry |-> None]
LinkTag   == [tagName |-> "LINK", async |-> FALSE, src |-> "u1",
              key |-> None, hash |-> None, expiry |-> None]
VideoTag  == [tagName |-> "VIDEO", async |-> FALSE, src |-> "u2",
              key |-> None, hash |-> None, expiry |-> None]

\* Elements whose data-expiry is a fraction of minutes, and the date of the
\* README's example.
FractionScriptTag == [tagName |-> "SCRIPT", async |-> FALSE, src |-> "u1",
              key |-> None, hash |-> None, expiry |-> "1.5"]
DatedScriptTag == [tagName |-> "SCRIPT", async |-> FALSE, src |-> "u2",
              key |-> None, hash |-> None, expiry |-> "2029-03-25T12:00:00-06:30"]

\* The documents considered: each repeats a pattern of tags.
Patterns == { <<ScriptTag, HashedScriptTag, ScriptTag>>,
              <<ImgTag, ScriptTag, ScriptTag>>,
              <<LinkTag, AsyncScriptTag, HashedScriptTag>>,
              <<VideoTag, ImgTag, ScriptTag>> }
PagesOf(n) == { [e \in 1..n |-> p[((e - 1) % Len(p)) + 1]] : p \in Patterns }

Keys     == {"u1", "u2", "constructor"}

\* parseInt() of a data-expiry attribute or of the expiry option.
\* It reads the leading decimal digits and stops at the first other character.
ParseInt(s) == CASE s = "0" -> 0 [] s = "1" -> 1 [] s = "2" -> 2
                 [] s = "1.5" -> 1
                 [] s = "2029-03-25T12:00:00-06:30" -> 2029
                 [] OTHER -> 0

\* A record of the object store ({key, hash, expiry, blob}; the key is the
\* store's keyPath) and the value of a key that has no record.
NoEntry == [hash |-> None, expiry |-> NoExpiry, blob |-> None]
Entry(h, x, b) == [hash |-> h, expiry |-> x, blob |-> b]

VARIABLES
  opt,      \* this.opt: tags, prune, expiry
  page,     \* the document: the markup of its elements, in document order
  db,       \* this.db
  openReq,  \* init(): the state of its _initDB promise
  store,    \* the object store: Keys -> record or NoEntry
  queue,    \* readwrite transactions not yet run, oldest first
  now,      \* new Date()
  el,       \* per element: src, href, dataset.indexed, onload, fired
  task,     \* per load() call and element: the obj and its resolution
  nloads,   \* load() calls made
  ncalls,   \* deleteKey()/prune()/clear() calls made
  raised,   \* a public call threw
  pruned,   \* the last prune() call: the keys it was given, the keys it found
  ctor      \* _icLoaded, and the constructions that returned and that threw

vars == <<opt, page, db, openReq, store, queue, now, el, task, nloads, ncalls, raised,
          pruned, ctor>>

Elements == DOMAIN page

\* ------------------------------------------------------------- the obj of an element
\* _setupElements builds one obj per scanned element.
ObjKey(e)  == IF page[e].key # None THEN page[e].key ELSE page[e].src
ObjSrc(e)  == page[e].src
ObjHash(e) == IF page[e].hash # None THEN page[e].hash ELSE page[e].src
IsAsync(e) == page[e].tagName # "SCRIPT" \/ page[e].async

\* obj.expiry: now + the element's own data-expiry, else the expiry
\* option; null when neither is truthy.
ObjExpiry(e) ==
  IF page[e].expiry # None /\ page[e].expiry # ""
  THEN now + ParseInt(page[e].expiry)
  ELSE IF opt.expiry # NoExpiry /\ opt.expiry # 0
       THEN now + opt.expiry
       ELSE NoExpiry

\* The selector of the default scan matches tag names without regard to case.
LowerTag(t) == CASE t = "SCRIPT" -> "script" [] t = "IMG" -> "img"
                 [] t = "LINK" -> "link" [] t = "VIDEO" -> "video"

\* A sequence of the elements of S in document order.
InOrder(S) ==
  [i \in 1..Cardinality(S) |->
     CHOOSE e \in S : Cardinality({x \in S : x < e}) = i - 1]

\* ------------------------------------------------------------- tasks
\* pc: none (not scanned by this load), lookup (store get in flight),
\* fetching, decoding (r.blob() pending), putting (store put in flight),
\* settled (the _getObject promise settled, not applied yet), hung (the
\* promise can no longer settle), applied (_applyElement ran for the obj).
\* fetches: the fetch() calls made for the obj.
\* look: what the store get answered when it was not a hit; how: what
\* settled the promise.
NoTask == [pc |-> "none", expiry |-> NoExpiry, blob |-> None,
           look |-> "-", how |-> "-", status |-> "-", fetches |-> 0]

Scanned(T, l)  == {e \in Elements : T[l, e].pc # "none"}
SyncOf(T, l)   == {e \in Scanned(T, l) : ~IsAsync(e)}

\* ------------------------------------------------------------- store requests
NoReq == [op |-> "-", key |-> None, l |-> 0, e |-> 0, data |-> NoEntry,
          keys |-> {}, by |-> "-"]
GetReq(l, e)  == [NoReq EXCEPT !.op = "get", !.key = ObjKey(e), !.l = l, !.e = e,
                               !.by = "lookup"]
PutReq(l, e, d) == [NoReq EXCEPT !.op = "put", !.key = ObjKey(e), !.l = l, !.e = e,
                               !.data = d, !.by = "fetch"]
DelReq(k, l, e, by) == [NoReq EXCEPT !.op = "delete", !.key = k, !.l = l, !.e = e,
                               !.by = by]
ClearReq      == [NoReq EXCEPT !.op = "clear", !.by = "api"]
ListReq(ks, l, by) == [NoReq EXCEPT !.op = "getAllKeys", !.keys = ks, !.l = l,
                               !.by = by]

\* ------------------------------------------------------------- _applyElement
NoHandler == <<0, 0>>
NewElement == [src |-> Unset, href |-> Unset, indexed |-> FALSE,
               onload |-> NoHandler, fired |-> FALSE, applies |-> 0]

\* _applyElement(obj, blob): the blob's object URL if a blob is given, else
\* obj.src, goes to src (SCRIPT, IMG) or href (LINK); the element is marked.
ApplyElement(E, e, blob) ==
  LET url == IF blob # None THEN BlobUrl(blob) ELSE SrcUrl(ObjSrc(e)) IN
  [E EXCEPT ![e] = [@ EXCEPT
     !.src  = IF page[e].tagName \in {"SCRIPT", "IMG"} THEN url ELSE @,
     !.href = IF page[e].tagName = "LINK" THEN url ELSE @,
     !.indexed = TRUE,
     !.applies = IF @ < 2 THEN @ + 1 ELSE @]]

\* The attribute the browser loads the element's resource from.
Resource(e) == IF page[e].tagName = "LINK" THEN el[e].href ELSE el[e].src

\* ------------------------------------------------------------- _prune
KeyList == <<"constructor", "u1", "u2">>    \* getAllKeys() answers in key order

\* key in keyMap, keyMap being a plain object built from the keys given.
InKeyMap(k, ks) == k \in ks \/ k \in ObjectPrototype

\* this._store().<request>: a transaction on this.db; throws a TypeError
\* when this.db is null.
StoreCall(Q, r) ==
  IF db = Open THEN [queue |-> Append(Q, r), threw |-> FALSE]
  ELSE [queue |-> Q, threw |-> TRUE]
Returned(Q) == [queue |-> Q, threw |-> FALSE]

DeleteKeyUnguarded(Q, k, l, e, by) == StoreCall(Q, DelReq(k, l, e, by))

\* deleteKey(key), clear(), _prune(keys): nothing without a db, else one request.
DeleteKey(Q, k, l, e, by) ==
  IF db # Open THEN Returned(Q) ELSE StoreCall(Q, DelReq(k, l, e, by))
Clear(Q) == IF db # Open THEN Returned(Q) ELSE StoreCall(Q, ClearReq)
Prune(Q, ks, l, by) ==
  IF db # Open THEN Returned(Q) ELSE StoreCall(Q, ListReq(ks, l, by))

\* The success handler of getAllKeys: deleteKey() for every stored key that
\* is not in the key map.
PruneDeletes(S, r) ==
  LET doomed(i) == S[KeyList[i]] # NoEntry /\ ~InKeyMap(KeyList[i], r.keys)
      F[i \in 0..Len(KeyList)] ==
        IF i = 0 THEN <<>>
        ELSE IF doomed(i)
             THEN DeleteKey(F[i - 1], KeyList[i], r.l, 0, r.by).queue
             ELSE F[i - 1]
  IN F[Len(KeyList)]

AfterSetupAnyLength(T, Q, l) ==
  IF db # Open THEN Q
  ELSE IF opt.prune
       THEN Prune(Q, {ObjKey(e) : e \in Scanned(T, l)}, l, "load").queue
       ELSE Q

AfterSetupAlwaysPrunes(T, Q, l) ==
  IF db # Open \/ Scanned(T, l) = {} THEN Q
  ELSE Prune(Q, {ObjKey(e) : e \in Scanned(T, l)}, l, "load").queue

\* load() after _setupElements returned objs: prune with the keys of objs.
AfterSetup(T, Q, l) ==
  IF db # Open \/ Scanned(T, l) = {} THEN Q
  ELSE IF opt.prune
       THEN Prune(Q, {ObjKey(e) : e \in Scanned(T, l)}, l, "load").queue
       ELSE Q

\* ------------------------------------------------------------- the ordered chain
\* What the _getObject promise of a task settles with, per outcome.
OnHit(data)     == [blob |-> data.blob, status |-> "fulfilled", how |-> "hit"]
OnFetchFailRejects == [blob |-> None, status |-> "rejected", how |-> "fetchfail"]
OnFetchFail     == [blob |-> None, status |-> "fulfilled", how |-> "fetchfail"]
OnPutSuccess(d) == [blob |-> d.blob, status |-> "fulfilled", how |-> "put"]
OnPutErrorKeeps(d) == [blob |-> d.blob, status |-> "fulfilled", how |-> "puterror"]
OnPutError(d)   == [blob |-> None, status |-> "fulfilled", how |-> "puterror"]

\* A chain without the onload/onerror hand-over: every result applied at once.
ChainStartUngated(T, E, Q, l) ==
  LET F[n \in 0..NumEls] ==
        IF n = 0 THEN E
        ELSE IF n \in SyncOf(T, l) THEN ApplyElement(F[n - 1], n, T[l, n].blob)
        ELSE F[n - 1]
  IN [task  |-> [x \in DOMAIN T |->
                   IF x[1] = l /\ x[2] \in SyncOf(T, l)
                   THEN [T[x] EXCEPT !.pc = "applied"] ELSE T[x]],
      el    |-> F[NumEls],
      queue |-> AfterSetup(T, Q, l)]

\* allSettled(promises).then(...): runs once every synchronous task of the
\* load has settled. A rejected result n applies objs[n] at once; every other
\* result but the last hands the next one to its element's onload/onerror;
\* then the first result is applied and load() goes on to its pruning.
ChainStart(T, E, Q, l) ==
  LET res  == InOrder(SyncOf(T, l))
      objs == InOrder(Scanned(T, l))
      rej(n) == T[l, res[n]].status = "rejected"
      E1 == [e \in Elements |->
              LET a == IF \E n \in 1..Len(res) : rej(n) /\ objs[n] = e
                       THEN ApplyElement(E, e, None)[e] ELSE E[e]
              IN IF \E n \in 1..(Len(res) - 1) : ~rej(n) /\ res[n] = e
                 THEN [a EXCEPT !.onload =
                         <<l, res[(CHOOSE n \in 1..(Len(res) - 1) : res[n] = e) + 1]>>]
                 ELSE a]
      T1 == [x \in DOMAIN T |->
              IF x[1] = l /\ T[x].pc = "settled"
                 /\ \E n \in 1..Len(res) : rej(n) /\ objs[n] = x[2]
              THEN [T[x] EXCEPT !.pc = "applied", !.blob = None] ELSE T[x]]
  IN IF rej(1)
     THEN [task |-> T1, el |-> E1, queue |-> Q]   \* results[0].value is undefined
     ELSE [task  |-> [T1 EXCEPT ![l, res[1]].pc = "applied"],
           el    |-> ApplyElement(E1, res[1], T[l, res[1]].blob),
           queue |-> AfterSetup(T, Q, l)]

\* Reactions that queue an asynchronous result like a synchronous one.
ResolveAsyncWaits(T, E, Q, l, e, r) ==
  LET T1 == [T EXCEPT ![l, e] = [@ EXCEPT !.pc = "settled", !.blob = r.blob,
                                          !.status = r.status, !.how = r.how]]
  IN IF IsAsync(e)
     THEN [task |-> T1, el |-> E, queue |-> Q]
     ELSE IF \A s \in SyncOf(T1, l) : T1[l, s].pc = "settled"
          THEN ChainStart(T1, E, Q, l)
          ELSE [task |-> T1, el |-> E, queue |-> Q]

\* Reactions that start the chain as soon as the first result is there.
ResolveFirstSettled(T, E, Q, l, e, r) ==
  LET T1 == [T EXCEPT ![l, e] = [@ EXCEPT !.pc = "settled", !.blob = r.blob,
                                          !.status = r.status, !.how = r.how]]
  IN IF IsAsync(e)
     THEN [task  |-> [T1 EXCEPT ![l, e].pc = "applied",
                                ![l, e].blob = IF r.status = "fulfilled"
                                               THEN r.blob ELSE None],
           el    |-> ApplyElement(E, e, IF r.status = "fulfilled" THEN r.blob ELSE None),
           queue |-> Q]
     ELSE IF T1[l, InOrder(SyncOf(T1, l))[1]].pc = "settled"
          THEN ChainStart(T1, E, Q, l)
          ELSE [task |-> T1, el |-> E, queue |-> Q]

\* The _getObject promise of task (l, e) settles with r. An asynchronous
\* task is applied at once; the last synchronous one to settle starts the chain.
Resolve(T, E, Q, l, e, r) ==
  LET T1 == [T EXCEPT ![l, e] = [@ EXCEPT !.pc = "settled", !.blob = r.blob,
                                          !.status = r.status, !.how = r.how]]
  IN IF IsAsync(e)
     THEN [task  |-> [T1 EXCEPT ![l, e].pc = "applied",
                                ![l, e].blob = IF r.status = "fulfilled"
                                               THEN r.blob ELSE None],
           el    |-> ApplyElement(E, e, IF r.status = "fulfilled" THEN r.blob ELSE None),
           queue |-> Q]
     ELSE IF \A s \in SyncOf(T1, l) : T1[l, s].pc = "settled"
          THEN ChainStart(T1, E, Q, l)
          ELSE [task |-> T1, el |-> E, queue |-> Q]

Settle(l, e, Q, r) ==
  LET n == Resolve(task, el, Q, l, e, r)
  IN /\ task' = n.task
     /\ el' = n.el
     /\ queue' = n.queue

\* ------------------------------------------------------------- construction
DefaultTags   == {"script", "img", "link"}

Options == [tags: {DefaultTags, DefaultTags \cup {"video"}},
            prune: BOOLEAN,
            expiry: {NoExpiry, 1}]

\* What earlier visits may have left in the store.
InitStores ==
  { [k \in Keys |-> NoEntry],
    [k \in Keys |-> CASE k = "u1" -> Entry("u1", NoExpiry, "prev")
                      [] k = "u2" -> Entry("u2", 1, "prev")
                      [] OTHER    -> Entry("u2", 0, "prev")],
    [k \in Keys |-> CASE k = "u1" -> Entry("h2", 1, "prev")
                      [] k = "u2" -> NoEntry
                      [] OTHER    -> Entry("u2", NoExpiry, "prev")] }

NotPruned == [on |-> FALSE, live |-> {}, prev |-> {}]

Start(pages) ==
  /\ page \in pages
  /\ opt \in {o \in Options : o.tags \subseteq
                    DefaultTags \cup {LowerTag(page[e].tagName) : e \in DOMAIN page}}
  /\ db = Null
  /\ openReq = "idle"
  /\ store \in InitStores
  /\ queue = <<>>
  /\ now = 1
  /\ el = [e \in Elements |-> NewElement]
  /\ task = [x \in Loads \X Elements |-> NoTask]
  /\ nloads = 0
  /\ ncalls = 0
  /\ raised = FALSE
  /\ pruned = NotPruned
  /\ ctor = [icLoaded |-> TRUE, made |-> 1, refused |-> 0]

Init == Start(PagesOf(NumEls))

\* ------------------------------------------------------------- init()
\* init(), called once: returns at once when this.db is set; else _initDB
\* rejects at once when the platform has no indexedDB, or opens the
\* database and arms the 200 ms timer.
InitCall ==
  /\ openReq = "idle"
  /\ \E o \in (IF db = Open THEN {"returned"} ELSE {"pending", "rejected"}) :
       openReq' = o
  /\ UNCHANGED <<opt, page, db, store, queue, now, el, task, nloads, ncalls, raised, pruned, ctor>>

\* req.onsuccess (or the upgrade transaction's oncomplete): resolve(db), and
\* init() sets this.db.
OpenSuccess ==
  /\ openReq = "pending"
  /\ openReq' = "resolved"
  /\ db' = Open
  /\ UNCHANGED <<opt, page, store, queue, now, el, task, nloads, ncalls, raised, pruned, ctor>>

\* req.onerror: reject.
OpenError ==
  /\ openReq = "pending"
  /\ openReq' = "rejected"
  /\ UNCHANGED <<opt, page, db, store, queue, now, el, task, nloads, ncalls, raised, pruned, ctor>>

\* The timer fires before the request answered: this.db is not set, reject.
OpenTimeout ==
  /\ openReq = "pending"
  /\ openReq' = IF db = Null THEN "timedout" ELSE "resolved"
  /\ UNCHANGED <<opt, page, db, store, queue, now, el, task, nloads, ncalls, raised, pruned, ctor>>

OpenLateSetsDb ==
  /\ openReq = "timedout"
  /\ openReq' = "late"
  /\ db' = Open
  /\ UNCHANGED <<opt, page, store, queue, now, el, task, nloads, ncalls, raised, pruned, ctor>>

\* The open request answers after the timer rejected: the promise is
\* settled already and resolve() changes nothing.
OpenLate ==
  /\ openReq = "timedout"
  /\ openReq' = "late"
  /\ UNCHANGED <<opt, page, db, store, queue, now, el, task, nloads, ncalls, raised, pruned, ctor>>

\* ------------------------------------------------------------- load()
\* The elements _setupElements makes an obj for: those given (a NodeList or
\* a Node) or, by default, those of the configured tags; never one that
\* already carries data-indexed.
QuerySelector == {e \in Elements : LowerTag(page[e].tagName) \in opt.tags /\ ~el[e].indexed}
Unindexed(S)  == {e \in S : ~el[e].indexed}

NewTask(e) == [NoTask EXCEPT !.expiry = ObjExpiry(e)]

\* _setupElements and the rest of load() up to its first suspension.
\* Without a db every obj is applied at once with its own src. With a db
\* every obj starts its store lookup, in document order; when no obj is
\* synchronous _setupElements returns at once and load() goes on to prune.
SetupElements(S, l) ==
  IF db # Open
  THEN [task  |-> [x \in Loads \X Elements |->
                     IF x[1] = l /\ x[2] \in S
                     THEN [NewTask(x[2]) EXCEPT !.pc = "applied", !.how = "degraded"]
                     ELSE task[x]],
        el    |-> [e \in Elements |->
                     IF e \in S THEN ApplyElement(el, e, None)[e] ELSE el[e]],
        queue |-> queue]
  ELSE LET T == [x \in Loads \X Elements |->
                   IF x[1] = l /\ x[2] \in S
                   THEN [NewTask(x[2]) EXCEPT !.pc = "lookup"] ELSE task[x]]
           objs == InOrder(S)
           Q == queue \o [i \in 1..Len(objs) |-> GetReq(l, objs[i])]
       IN [task  |-> T,
           el    |-> el,
           queue |-> IF SyncOf(T, l) = {} THEN AfterSetup(T, Q, l) ELSE Q]

DoLoad(S) ==
  LET n == SetupElements(S, nloads + 1)
  IN /\ nloads' = nloads + 1
     /\ task' = n.task
     /\ el' = n.el
     /\ queue' = n.queue
     /\ UNCHANGED <<opt, page, db, openReq, store, now, ncalls, raised, pruned, ctor>>

LoadAll == DoLoad(QuerySelector)

\* load(elements) with a Node, or with a NodeList of every element.
LoadEls == \E S \in {{e} : e \in Elements} \cup {Elements} : DoLoad(Unindexed(S))

\* ------------------------------------------------------------- store events
\* Readwrite transactions on one object store run one at a time, in the
\* order they were created; a request's handler runs inside its transaction.
Next1 == IF queue = <<>> THEN NoReq ELSE Head(queue)
Rest  == IF queue = <<>> THEN <<>> ELSE Tail(queue)

StoredKeys == {k \in Keys : store[k] # NoEntry}

LookupIgnoresHash(data, e) ==
  IF data = NoEntry THEN "absent"
  ELSE IF data.expiry # NoExpiry /\ now > data.expiry THEN "expired"
  ELSE "hit"

LookupAnyRecord(data, e) == IF data = NoEntry THEN "absent" ELSE "hit"

LookupNeverExpires(data, e) ==
  IF data = NoEntry THEN "absent"
  ELSE IF ObjHash(e) # None /\ data.hash # ObjHash(e) THEN "stale"
  ELSE "hit"

\* _getDBblob's verdict on the record found under obj.key.
Lookup(data, e) ==
  IF data = NoEntry THEN "absent"
  ELSE IF ObjHash(e) # None /\ data.hash # ObjHash(e) THEN "stale"
  ELSE IF data.expiry # NoExpiry /\ now > data.expiry THEN "expired"
  ELSE "hit"

\* The catch of _getDBblob in _getObject: _fetchObject(obj) calls fetch(obj.src).
StartFetch(T, l, e, v) ==
  [T EXCEPT ![l, e].pc = "fetching", ![l, e].look = v, ![l, e].fetches = @ + 1]

\* A success handler that renews the expiry of the record it hits.
GetSuccessRenews ==
  LET r == Next1
      v == Lookup(store[r.key], r.e)
  IN /\ r.op = "get"
     /\ IF v = "hit"
        THEN /\ Settle(r.l, r.e, Rest, OnHit(store[r.key]))
             /\ store' = [store EXCEPT ![r.key].expiry = task[r.l, r.e].expiry]
        ELSE /\ task' = StartFetch(task, r.l, r.e, v)
             /\ queue' = IF v = "expired"
                         THEN DeleteKey(Rest, r.key, r.l, r.e, "evict").queue
                         ELSE Rest
             /\ el' = el
             /\ store' = store
     /\ UNCHANGED <<opt, page, db, openReq, now, nloads, ncalls, raised, pruned, ctor>>

\* get.onsuccess: a hit resolves _getObject with the record; any miss goes
\* on to fetch(obj.src), an expired record being deleted first.
GetSuccess ==
  LET r == Next1
      v == Lookup(store[r.key], r.e)
  IN /\ r.op = "get"
     /\ IF v = "hit"
        THEN Settle(r.l, r.e, Rest, OnHit(store[r.key]))
        ELSE /\ task' = StartFetch(task, r.l, r.e, v)
             /\ queue' = IF v = "expired"
                         THEN DeleteKey(Rest, r.key, r.l, r.e, "evict").queue
                         ELSE Rest
             /\ el' = el
     /\ UNCHANGED <<opt, page, db, openReq, store, now, nloads, ncalls, raised, pruned, ctor>>

\* get.onerror: reject, and _getObject goes on to fetch(obj.src).
GetError ==
  LET r == Next1
  IN /\ r.op = "get"
     /\ task' = StartFetch(task, r.l, r.e, "error")
     /\ queue' = Rest
     /\ UNCHANGED <<opt, page, db, openReq, store, now, el, nloads, ncalls, raised, pruned, ctor>>

PutKeepsFirst ==
  LET r == Next1
  IN /\ r.op = "put"
     /\ store' = IF store[r.key] = NoEntry THEN [store EXCEPT ![r.key] = r.data] ELSE store
     /\ Settle(r.l, r.e, Rest, OnPutSuccess(r.data))
     /\ UNCHANGED <<opt, page, db, openReq, now, nloads, ncalls, raised, pruned, ctor>>

\* put.onsuccess: the record replaces the one under its key; resolve(data).
PutSuccess ==
  LET r == Next1
  IN /\ r.op = "put"
     /\ store' = [store EXCEPT ![r.key] = r.data]
     /\ Settle(r.l, r.e, Rest, OnPutSuccess(r.data))
     /\ UNCHANGED <<opt, page, db, openReq, now, nloads, ncalls, raised, pruned, ctor>>

\* put.onerror: reject, and _getObject resolves with the dummy data object.
PutError ==
  LET r == Next1
  IN /\ r.op = "put"
     /\ Settle(r.l, r.e, Rest, OnPutError(r.data))
     /\ UNCHANGED <<opt, page, db, openReq, store, now, nloads, ncalls, raised, pruned, ctor>>

DeleteRun ==
  /\ Next1.op = "delete"
  /\ store' = [store EXCEPT ![Next1.key] = NoEntry]
  /\ queue' = Rest
  /\ UNCHANGED <<opt, page, db, openReq, now, el, task, nloads, ncalls, raised, pruned, ctor>>

ClearRun ==
  /\ Next1.op = "clear"
  /\ store' = [k \in Keys |-> NoEntry]
  /\ queue' = Rest
  /\ UNCHANGED <<opt, page, db, openReq, now, el, task, nloads, ncalls, raised, pruned, ctor>>

\* getAllKeys.onsuccess of _prune.
KeysListed ==
  /\ Next1.op = "getAllKeys"
  /\ queue' = Rest \o PruneDeletes(store, Next1)
  /\ pruned' = IF Next1.by = "prune"
               THEN [on |-> TRUE, live |-> Next1.keys, prev |-> StoredKeys]
               ELSE pruned
  /\ UNCHANGED <<opt, page, db, openReq, store, now, el, task, nloads, ncalls, raised, ctor>>

\* ------------------------------------------------------------- fetch events
\* fetch(obj.src) answered with r.ok: r.blob() is started.
FetchOk(l, e) ==
  /\ task[l, e].pc = "fetching"
  /\ task' = [task EXCEPT ![l, e].pc = "decoding"]
  /\ UNCHANGED <<opt, page, db, openReq, store, queue, now, el, nloads, ncalls, raised, pruned, ctor>>

FetchFailRetries(l, e) ==
  /\ task[l, e].pc = "fetching"
  /\ task' = StartFetch(task, l, e, task[l, e].look)
  /\ UNCHANGED <<opt, page, db, openReq, store, queue, now, el, nloads, ncalls, raised,
                 pruned, ctor>>

\* fetch(obj.src) rejected, or answered with a status that is not ok.
FetchFail(l, e) ==
  /\ task[l, e].pc = "fetching"
  /\ Settle(l, e, queue, OnFetchFail)
  /\ UNCHANGED <<opt, page, db, openReq, store, now, nloads, ncalls, raised, pruned, ctor>>

\* The data object _fetchObject writes: the obj's key, hash and expiry and
\* the fetched blob.
FetchedData(l, e) == Entry(ObjHash(e), task[l, e].expiry, ObjSrc(e))

\* r.blob() fulfilled: the put request is made.
DecodeOk(l, e) ==
  /\ task[l, e].pc = "decoding"
  /\ task' = [task EXCEPT ![l, e].pc = "putting"]
  /\ queue' = Append(queue, PutReq(l, e, FetchedData(l, e)))
  /\ UNCHANGED <<opt, page, db, openReq, store, now, el, nloads, ncalls, raised, pruned, ctor>>

\* r.blob() fulfilled and put() throws: caught, reject.
DecodePutThrows(l, e) ==
  /\ task[l, e].pc = "decoding"
  /\ Settle(l, e, queue, OnPutError(FetchedData(l, e)))
  /\ UNCHANGED <<opt, page, db, openReq, store, now, nloads, ncalls, raised, pruned, ctor>>

\* r.blob() rejected: nothing handles it, and the promise of _fetchObject
\* is left pending for good.
DecodeFail(l, e) ==
  /\ task[l, e].pc = "decoding"
  /\ task' = [task EXCEPT ![l, e].pc = "hung"]
  /\ UNCHANGED <<opt, page, db, openReq, store, queue, now, el, nloads, ncalls, raised, pruned, ctor>>

\* ------------------------------------------------------------- element events
\* A script whose src was set fires load or error, once; the handler the
\* chain left on it applies the next result.
ElementEvent(e) ==
  LET h == el[e].onload
      E1 == [el EXCEPT ![e].fired = TRUE]
  IN /\ ~IsAsync(e)
     /\ el[e].src # Unset
     /\ ~el[e].fired
     /\ IF h = NoHandler \/ task[h[1], h[2]].status = "rejected"
        THEN el' = E1 /\ task' = task
        ELSE /\ el' = ApplyElement(E1, h[2], task[h[1], h[2]].blob)
             /\ task' = [task EXCEPT ![h[1], h[2]].pc = "applied"]
     /\ UNCHANGED <<opt, page, db, openReq, store, queue, now, nloads, ncalls, raised, pruned, ctor>>

\* ------------------------------------------------------------- time, public calls
\* The clock is read by _setupElements and by the handler of a store get:
\* it is advanced only while one of the two can still follow.
ClockRead == nloads = 0 \/ \E i \in 1..Len(queue) : queue[i].op = "get"

Tick ==
  /\ now < 1 + MaxTime
  /\ ClockRead
  /\ now' = now + 1
  /\ UNCHANGED <<opt, page, db, openReq, store, queue, el, task, nloads, ncalls, raised, pruned, ctor>>

Call(n) ==
  /\ ncalls < MaxCalls
  /\ ncalls' = ncalls + 1
  /\ queue' = n.queue
  /\ raised' = (raised \/ n.threw)
  /\ UNCHANGED <<opt, page, db, openReq, store, now, el, task, nloads, pruned, ctor>>

DeleteKeyCall == \E k \in Keys : Call(DeleteKey(queue, k, 0, 0, "api"))
PruneCall     == \E ks \in SUBSET Keys : Call(Prune(queue, ks, 0, "prune"))
ClearCall     == Call(Clear(queue))

\* ------------------------------------------------------------- specification
\* The steps every page takes: init(), the store and network events, the
\* element events, the clock.
Engine ==
  \/ InitCall
  \/ OpenSuccess
  \/ OpenError
  \/ OpenTimeout
  \/ OpenLate
  \/ GetSuccess
  \/ GetError
  \/ PutSuccess
  \/ PutError
  \/ DeleteRun
  \/ KeysListed
  \/ \E l \in Loads : \E e \in Elements : FetchOk(l, e)
  \/ \E l \in Loads : \E e \in Elements : FetchFail(l, e)
  \/ \E l \in Loads : \E e \in Elements : DecodeOk(l, e)
  \/ \E l \in Loads : \E e \in Elements : DecodePutThrows(l, e)
  \/ \E l \in Loads : \E e \in Elements : DecodeFail(l, e)
  \/ \E e \in Elements : ElementEvent(e)
  \/ Tick

\* A page that calls load() once.
Next ==
  \/ Engine
  \/ (nloads = 0 /\ LoadAll)
  \/ (nloads = 0 /\ LoadEls)

Spec == Init /\ [][Next]_vars

\* The answers the platform owes: every store request succeeds or errors,
\* every fetch and every decode ends, every applied script fires load or error.
Answers ==
  \/ GetSuccess
  \/ GetError
  \/ PutSuccess
  \/ PutError
  \/ DeleteRun
  \/ KeysListed
  \/ \E l \in Loads : \E e \in Elements : FetchOk(l, e)
  \/ \E l \in Loads : \E e \in Elements : FetchFail(l, e)
  \/ \E l \in Loads : \E e \in Elements : DecodeOk(l, e)
  \/ \E l \in Loads : \E e \in Elements : DecodePutThrows(l, e)
  \/ \E l \in Loads : \E e \in Elements : DecodeFail(l, e)
  \/ \E e \in Elements : ElementEvent(e)

LiveSpec == Init /\ [][Next]_vars /\ WF_vars(Answers)

\* A page whose elements carry the data-expiry values above, loaded once.
ExpiryPatterns == { <<FractionScriptTag, ScriptTag>>,
                    <<DatedScriptTag, HashedScriptTag>> }
ExpiryPages == { [e \in 1..NumEls |-> p[((e - 1) % Len(p)) + 1]] : p \in ExpiryPatterns }

ExpiryInit ==
  /\ Start(ExpiryPages)
  /\ opt.tags = DefaultTags

ExpirySpec == ExpiryInit /\ [][Next]_vars

\* The 200 ms timer of _initDB fires whenever the request is still open.
TimerSpec == Init /\ [][Next]_vars /\ WF_vars(OpenTimeout)

\* A page whose store never opens: init() fails or is never called, and
\* the page calls load(), deleteKey(), prune() and clear().
DegradedNext ==
  \/ InitCall
  \/ OpenError
  \/ OpenTimeout
  \/ OpenLate
  \/ Tick
  \/ (nloads < MaxLoads /\ LoadAll)
  \/ (nloads < MaxLoads /\ LoadEls)
  \/ DeleteKeyCall
  \/ PruneCall
  \/ ClearCall

DegradedSpec == Init /\ [][DegradedNext]_vars

\* A page that calls load() once and deleteKey(), prune() or clear().
ApiInit ==
  /\ Start(PagesOf(NumEls))
  /\ opt.expiry = NoExpiry
  /\ ~opt.prune

ApiNext ==
  \/ Next
  \/ ClearRun
  \/ DeleteKeyCall
  \/ PruneCall
  \/ ClearCall

ApiSpec == ApiInit /\ [][ApiNext]_vars

\* The script before any instance exists: _icLoaded is false, and the
\* fields of the instance to come hold their placeholders.
NoInstance == [tags |-> {}, prune |-> FALSE, expiry |-> NoExpiry]

NewInit ==
  /\ page \in PagesOf(NumEls)
  /\ opt = NoInstance
  /\ db = Null
  /\ openReq = "idle"
  /\ store \in InitStores
  /\ queue = <<>>
  /\ now = 1
  /\ el = [e \in Elements |-> NewElement]
  /\ task = [x \in Loads \X Elements |-> NoTask]
  /\ nloads = 0
  /\ ncalls = 0
  /\ raised = FALSE
  /\ pruned = NotPruned
  /\ ctor = [icLoaded |-> FALSE, made |-> 0, refused |-> 0]

NewUnchecked ==
  /\ ctor.made + ctor.refused < MaxNew
  /\ ctor' = [ctor EXCEPT !.icLoaded = TRUE, !.made = @ + 1]
  /\ opt' \in {o \in Options : o.expiry = NoExpiry /\ o.tags = DefaultTags}
  /\ db' = Null
  /\ UNCHANGED <<page, openReq, store, queue, now, el, task, nloads, ncalls, raised, pruned>>

\* new IndexedCache(options): throws when _icLoaded is set; else sets it,
\* merges the options over the defaults and sets this.db = null.
New ==
  /\ ctor.made + ctor.refused < MaxNew
  /\ IF ctor.icLoaded
     THEN /\ ctor' = [ctor EXCEPT !.refused = @ + 1]
          /\ UNCHANGED <<opt, db>>
     ELSE /\ ctor' = [ctor EXCEPT !.icLoaded = TRUE, !.made = @ + 1]
          /\ opt' \in {o \in Options : o.expiry = NoExpiry /\ o.tags = DefaultTags}
          /\ db' = Null
  /\ UNCHANGED <<page, openReq, store, queue, now, el, task, nloads, ncalls, raised, pruned>>

\* The methods are called on the one instance there is.
NewNext ==
  \/ New
  \/ (ctor.made > 0 /\ Next)

NewSpec == NewInit /\ [][NewNext]_vars

\* A page that calls load() up to MaxLoads times, with any elements, while
\* earlier calls may still be resolving. The store opens and answers every
\* request with success, a fetch may fail, a decode succeeds. The clock also
\* advances between two calls.
TickBetweenLoads ==
  /\ now < 1 + MaxTime
  /\ 0 < nloads /\ nloads < MaxLoads
  /\ ~ClockRead
  /\ now' = now + 1
  /\ UNCHANGED <<opt, page, db, openReq, store, queue, el, task, nloads, ncalls, raised, pruned, ctor>>

LoadsNext ==
  \/ InitCall
  \/ OpenSuccess
  \/ GetSuccess
  \/ PutSuccess
  \/ DeleteRun
  \/ KeysListed
  \/ \E l \in Loads : \E e \in Elements : FetchOk(l, e)
  \/ \E l \in Loads : \E e \in Elements : FetchFail(l, e)
  \/ \E l \in Loads : \E e \in Elements : DecodeOk(l, e)
  \/ \E e \in Elements : ElementEvent(e)
  \/ Tick
  \/ TickBetweenLoads
  \/ (nloads < MaxLoads /\ LoadAll)
  \/ (nloads < MaxLoads /\ LoadEls)

LoadsInit ==
  /\ Start(PagesOf(NumEls))
  /\ opt.tags = DefaultTags
  /\ opt.expiry = NoExpiry

LoadsSpec == LoadsInit /\ [][LoadsNext]_vars

\* ------------------------------------------------------------- properties
Supported(e) == page[e].tagName \in {"SCRIPT", "IMG", "LINK"}
Pending(l)   == {e \in Scanned(task, l) :
                   task[l, e].pc \in {"lookup", "fetching", "decoding", "putting"}}
Hung(l)      == {e \in Scanned(task, l) : task[l, e].pc = "hung"}
Applied(l)   == {e \in Scanned(task, l) : task[l, e].pc = "applied"}

\* C1: with the store open, a synchronous task of a load() call is applied
\* only after every synchronous task before it in document order has been
\* applied and its element has fired load or error, whatever the order in
\* which the tasks were resolved.
C1_OrderedApply ==
  \A l \in Loads : \A e1 \in SyncOf(task, l) : \A e2 \in SyncOf(task, l) :
    (e1 < e2 /\ task[l, e2].pc = "applied" /\ task[l, e2].how # "degraded")
      => (task[l, e1].pc = "applied" /\ el[e1].fired)

\* Two ordered tasks, the first resolved by a fetch and the second by a
\* cache hit, both applied.
C1_Witness ==
  \E l \in Loads : \E e1 \in SyncOf(task, l) : \E e2 \in SyncOf(task, l) :
    /\ e1 < e2
    /\ task[l, e1].pc = "applied" /\ task[l, e1].how = "put"
    /\ task[l, e2].pc = "applied" /\ task[l, e2].how = "hit"

\* C2: once an element is marked processed, its resource attribute holds a
\* local handle or the original locator, for every configured tag.
C2_NeverUnset ==
  \A e \in Elements :
    (LowerTag(page[e].tagName) \in opt.tags /\ el[e].indexed) => Resource(e) # Unset

\* C3: every scanned task is eventually applied, given that every store
\* request, fetch and decode ends and every applied element fires an event.
C3_EventuallyApplied ==
  \A l \in Loads : \A e \in 1..NumEls :
    (e \in Elements /\ task[l, e].pc # "none")
      ~> (e \in Elements /\ task[l, e].pc = "applied")

C5_SiblingsStillApplied ==
  \A l \in Loads : \A e \in 1..NumEls :
    (e \in Elements /\ task[l, e].how = "fetchfail")
      ~> (/\ Applied(l) = Scanned(task, l)
          /\ Supported(e) => Resource(e) = SrcUrl(ObjSrc(e)))

\* C5, the part that holds whatever the other tasks do: a task whose fetch
\* failed resolves without a payload, no put is issued for it, its element
\* is applied with the original locator if it is applied; and once nothing
\* of its load() is outstanding every task of that load() has been applied,
\* unless the decode of one of them never settled.
C5_FetchFailureContained ==
  \A l \in Loads : \A e \in Scanned(task, l) :
    task[l, e].how = "fetchfail" =>
      /\ task[l, e].blob = None
      /\ task[l, e].status = "fulfilled"
      /\ (e \in Applied(l) /\ Supported(e)) => Resource(e) = SrcUrl(ObjSrc(e))
      /\ \A i \in 1..Len(queue) :
            ~(queue[i].op = "put" /\ queue[i].l = l /\ queue[i].e = e)
      /\ (/\ Pending(l) = {}
          /\ Hung(l) = {}
          /\ \A u \in Applied(l) \cap SyncOf(task, l) : el[u].fired)
         => Applied(l) = Scanned(task, l)

\* An ordered task whose fetch failed, applied, and a later ordered task of
\* the same load() resolved from the network or the cache, applied after it.
C5_ContainedWitness ==
  \E l \in Loads : \E e \in SyncOf(task, l) : \E u \in SyncOf(task, l) :
    /\ e < u
    /\ e \in Applied(l) /\ task[l, e].how = "fetchfail"
    /\ Resource(e) = SrcUrl(ObjSrc(e))
    /\ u \in Applied(l) /\ task[l, u].how \in {"hit", "put"}

\* C6: while the store is unavailable, load() applies every scanned task
\* with its original locator, and load(), deleteKey(), prune() and clear()
\* issue no store request, start no fetch and do not throw.
C6_DegradedMode ==
  db # Open =>
    /\ queue = <<>>
    /\ ~raised
    /\ \A l \in Loads : \A e \in Scanned(task, l) :
         /\ task[l, e].pc = "applied"
         /\ task[l, e].how = "degraded"
         /\ task[l, e].blob = None
         /\ Supported(e) => Resource(e) = SrcUrl(ObjSrc(e))

\* The open failed or timed out, a load() applied an ordered and an
\* unordered task natively, and a deleteKey(), prune() or clear() was made.
C6_Witness ==
  /\ db = Null
  /\ openReq \in {"rejected", "timedout"}
  /\ ncalls > 0
  /\ \E l \in Loads : \E e \in Applied(l) : \E u \in Applied(l) :
       /\ ~IsAsync(e) /\ Resource(e) = SrcUrl(ObjSrc(e))
       /\ IsAsync(u) /\ Resource(u) = SrcUrl(ObjSrc(u))

\* C7: a lookup that finds a record whose hash differs from the task's is a
\* miss: nothing is applied and the task goes on to fetch its source; when
\* the put of what it fetched succeeds, the record under its key carries
\* the task's hash, the task's expiry and the fetched payload.
C7_Invalidation ==
  [][\A l \in Loads : \A e \in Scanned(task, l) :
       LET k == ObjKey(e) IN
       /\ (/\ task[l, e].pc = "lookup" /\ task'[l, e].pc # "lookup"
           /\ store[k] # NoEntry /\ store[k].hash # ObjHash(e))
          => (/\ task'[l, e].pc = "fetching"
              /\ task'[l, e].look \in {"stale", "error"}
              /\ el' = el)
       /\ (/\ task[l, e].pc = "putting" /\ task[l, e].look = "stale"
           /\ task'[l, e].how = "put")
          => (/\ store'[k] = Entry(ObjHash(e), task[l, e].expiry, ObjSrc(e))
              /\ task'[l, e].blob = ObjSrc(e))]_vars

\* A task whose lookup found another hash, applied with what it fetched,
\* the record under its key now carrying its hash.
C7_Witness ==
  \E l \in Loads : \E e \in Applied(l) :
    /\ task[l, e].look = "stale" /\ task[l, e].how = "put"
    /\ page[e].hash # None
    /\ store[ObjKey(e)] = Entry(ObjHash(e), task[l, e].expiry, ObjSrc(e))
    /\ Resource(e) = BlobUrl(ObjSrc(e))

\* C8: a successful lookup that finds a record with the task's hash and an
\* expiry in the past issues a delete of the key, is a miss, and the task
\* goes on to fetch its source.
C8_ExpiredEvicted ==
  [][\A l \in Loads : \A e \in Scanned(task, l) :
       LET k == ObjKey(e)
           d == store[k]
       IN (/\ task[l, e].pc = "lookup" /\ task'[l, e].pc # "lookup"
           /\ task'[l, e].look # "error"
           /\ d # NoEntry /\ d.hash = ObjHash(e)
           /\ d.expiry # NoExpiry /\ d.expiry < now)
          => (/\ task'[l, e].pc = "fetching"
              /\ task'[l, e].look = "expired"
              /\ el' = el
              /\ queue' = Append(Tail(queue), DelReq(k, l, e, "evict")))]_vars

\* A task fetching after its lookup found an expired record, the delete of
\* its key issued.
C8_Witness ==
  \E l \in Loads : \E e \in Scanned(task, l) :
    /\ task[l, e].look = "expired" /\ task[l, e].pc = "fetching"
    /\ \E i \in 1..Len(queue) : queue[i] = DelReq(ObjKey(e), l, e, "evict")

\* C9: once a prune(liveKeys) on an open store has completed, with no load()
\* writing to the store, the stored keys are those stored before that were
\* in liveKeys.
C9_PruneIntersection ==
  (/\ pruned.on
   /\ nloads = 0
   /\ \A i \in 1..Len(queue) : queue[i].op # "delete")
    => StoredKeys = pruned.prev \cap pruned.live

\* C10: the pruning done by load() never deletes a key carried by an
\* element of the page of a configured tag.
C10_LoadPruneSparesPage ==
  \A i \in 1..Len(queue) :
    (queue[i].op = "delete" /\ queue[i].by = "load")
      => queue[i].key \notin {ObjKey(e) : e \in {x \in Elements :
                                  LowerTag(page[x].tagName) \in opt.tags}}

\* C11: a load() called when every element of the page is already marked
\* processed issues no store request and no fetch, prunes nothing and
\* applies no element again.
C11_ReloadIdempotent ==
  [][(nloads' = nloads + 1 /\ \A e \in Elements : el[e].indexed)
       => (/\ UNCHANGED <<store, queue, task, el>>
           /\ Scanned(task', nloads') = {})]_vars

\* A second load() made with the store open and prune enabled after the
\* first one had every element applied from the store or the network.
C11_Witness ==
  /\ nloads = 2 /\ db = Open /\ opt.prune
  /\ Scanned(task, 2) = {}
  /\ Applied(1) = Elements
  /\ \E e \in Elements : task[1, e].how \in {"hit", "put"}

\* C12: at most one instance is ever constructed; the first construction
\* succeeds, and a later one throws at once, leaving the options and the db
\* handle of the first instance, and everything else, as they were.
C12_SingleInstance ==
  [][/\ ctor'.made <= 1
     /\ (ctor'.made + ctor'.refused > ctor.made + ctor.refused) =>
          IF ctor.made = 0
          THEN ctor'.made = 1 /\ ctor'.refused = ctor.refused /\ ctor'.icLoaded
          ELSE /\ ctor'.refused = ctor.refused + 1 /\ ctor'.made = ctor.made
               /\ UNCHANGED <<opt, db, openReq, store, queue, el, task>>]_vars

\* The first instance has opened its store and a second construction threw.
C12_Witness ==
  /\ ctor.made = 1 /\ ctor.refused > 0
  /\ db = Open /\ opt.prune

\* C13: an open request that has not answered when the 200 ms timer fires
\* ends init() with no db handle, so init() never waits forever; a success
\* that arrives after the timer gives the instance no db handle.
C13_OpenTimeout ==
  /\ [](openReq \in {"timedout", "late"} => db = Null)
  /\ (openReq = "pending" ~> openReq \in {"resolved", "rejected", "timedout", "late"})

\* The open request answered after the timer, and a load() applied its
\* elements natively.
C13_Witness ==
  /\ openReq = "late" /\ db = Null
  /\ \E e \in Elements : task[1, e].how = "degraded" /\ task[1, e].pc = "applied"

\* What a data-expiry value denotes: twice its number of minutes, or the
\* instant of its date, in minutes after the page opened.
TwiceMinutes(s) == CASE s = "0" -> 0 [] s = "1" -> 2 [] s = "2" -> 4 [] s = "1.5" -> 3
                     [] OTHER -> 0
IsDate(s)    == s = "2029-03-25T12:00:00-06:30"
DateParse(s) == 1000000

\* C14: the expiry of a task is the instant of its scan plus the minutes of
\* the element's own data-expiry when it has one (the date it names, for a
\* date), plus the minutes of the expiry option otherwise, and no expiry
\* when neither is set.
C14_ExpiryInstant ==
  [][\A e \in Elements :
       (nloads' = nloads + 1 /\ task'[nloads', e].pc # "none") =>
         2 * task'[nloads', e].expiry =
           IF page[e].expiry # None
           THEN IF IsDate(page[e].expiry) THEN 2 * DateParse(page[e].expiry)
                ELSE 2 * now + TwiceMinutes(page[e].expiry)
           ELSE IF opt.expiry # NoExpiry THEN 2 * (now + opt.expiry)
           ELSE 2 * NoExpiry]_vars

\* C15: with the prune option off, load() lists no keys, and every delete
\* it issues is issued by the lookup of a task, for the task's key, on
\* finding an entry whose expiry is in the past.
C15_NoPruneByDefault ==
  [][~opt.prune =>
       \A i \in 1..Len(queue') :
         LET r == queue'[i] IN
         (r.op \in {"delete", "getAllKeys"} /\ \A j \in 1..Len(queue) : queue[j] # r)
           => (/\ r.op = "delete" /\ r.by = "evict"
               /\ Next1 = GetReq(r.l, r.e)
               /\ r.key = ObjKey(r.e)
               /\ store[r.key].expiry # NoExpiry /\ store[r.key].expiry < now)]_vars

\* With prune off, a load() whose tasks are all applied, one of them after
\* evicting its expired entry, while a key carried by no element is still
\* stored.
C15_Witness ==
  /\ ~opt.prune
  /\ Scanned(task, 1) # {} /\ Applied(1) = Scanned(task, 1)
  /\ \E e \in Elements : task[1, e].look = "expired" /\ task[1, e].how = "put"
  /\ \E k \in StoredKeys : k \notin {ObjKey(e) : e \in Elements}

C17_ChainSurvivesFailure ==
  \A l \in Loads : \A e \in 1..NumEls : \A u \in 1..NumEls :
    (/\ e \in SyncOf(task, l) /\ u \in SyncOf(task, l) /\ e < u
     /\ task[l, e].how = "fetchfail")
      ~> (/\ task[l, e].pc = "applied" /\ Resource(e) = SrcUrl(ObjSrc(e))
          /\ task[l, u].pc = "applied")

\* C18: without a db handle, an ordered task is applied only after every
\* ordered task before it was applied and its element fired load or error.
C18_DegradedOrdered ==
  \A l \in Loads : \A e1 \in SyncOf(task, l) : \A e2 \in SyncOf(task, l) :
    (e1 < e2 /\ task[l, e2].pc = "applied" /\ task[l, e2].how = "degraded")
      => (task[l, e1].pc = "applied" /\ el[e1].fired)

\* C19: a task resolves with a payload from the store only when its lookup
\* finds a record under its key with its hash and with no expiry or an
\* expiry that is not in the past, and the payload is that record's; a
\* task that did not hit carries no payload or the one it fetched, and an
\* element is applied with the payload of its task.
C19_OnlyValidHits ==
  [][\A l \in Loads : \A e \in Elements :
       LET d == store[ObjKey(e)] IN
       /\ (task[l, e].how # "hit" /\ task'[l, e].how = "hit") =>
            /\ Next1 = GetReq(l, e)
            /\ d # NoEntry /\ d.hash = ObjHash(e)
            /\ (d.expiry = NoExpiry \/ d.expiry >= now)
            /\ task'[l, e].blob = d.blob
       /\ task'[l, e].how \notin {"hit", "put"} => task'[l, e].blob = None
       /\ task'[l, e].how = "put" => task'[l, e].blob = ObjSrc(e)
       /\ (task[l, e].pc # "applied" /\ task'[l, e].pc = "applied" /\ Supported(e)) =>
            Resource(e)' = IF task'[l, e].blob = None THEN SrcUrl(ObjSrc(e))
                           ELSE BlobUrl(task'[l, e].blob)]_vars

\* An element applied with the payload of the record its lookup found,
\* next to one whose lookup found a record with another hash and which
\* was applied with what it fetched.
C19_Witness ==
  \E l \in Loads : \E e \in Applied(l) : \E u \in Applied(l) :
    /\ task[l, e].how = "hit" /\ task[l, e].blob = "prev"
    /\ Resource(e) = BlobUrl("prev")
    /\ task[l, u].how = "put" /\ task[l, u].look = "stale"
    /\ Resource(u) = BlobUrl(ObjSrc(u))

\* C20: a task calls fetch() once at most, and only when its lookup is
\* answered with a miss or an error; a task that hit never fetches, and a
\* task whose fetch ended never fetches again.
C20_AtMostOneFetch ==
  [][\A l \in Loads : \A e \in Elements :
       /\ task'[l, e].fetches <= 1
       /\ task'[l, e].fetches > task[l, e].fetches =>
            /\ task[l, e].pc = "lookup" /\ Next1 = GetReq(l, e)
            /\ task'[l, e].look \in {"absent", "stale", "expired", "error"}
       /\ task'[l, e].how = "hit" => task'[l, e].fetches = 0
       /\ task[l, e].pc \in {"decoding", "putting", "settled", "hung", "applied"} =>
            task'[l, e].pc # "fetching"]_vars

\* A load() with one task applied after its only fetch failed and one
\* applied from the store without any fetch.
C20_Witness ==
  \E l \in Loads : \E e \in Applied(l) : \E u \in Applied(l) :
    /\ task[l, e].how = "fetchfail" /\ task[l, e].fetches = 1
    /\ task[l, u].how = "hit" /\ task[l, u].fetches = 0

\* The records earlier visits left carry the payload "prev"; a task stores
\* the payload it fetched, which is its source.
FromEarlierVisit(d) == d # NoEntry /\ d.blob = "prev"

\* C21: once a task whose lookup found a record with another hash is
\* applied, the store holds no record with that old hash under the task's
\* key, whether its fetch succeeded or failed.
C21_StaleRemoved ==
  \A l \in Loads : \A e \in Applied(l) :
    task[l, e].look = "stale" =>
      LET d == store[ObjKey(e)] IN ~(FromEarlierVisit(d) /\ d.hash # ObjHash(e))

\* The load() calls that made a task for element e.
TasksOf(e) == {l \in Loads : task[l, e].pc # "none"}

\* C22: across any sequence of load() calls, also one made while an
\* earlier one still has tasks that are not applied, no element gets a
\* second task, a second fetch or a second application.
C22_AppliedOnce ==
  \A e \in Elements :
    /\ Cardinality(TasksOf(e)) <= 1
    /\ \A l \in Loads : \A m \in Loads :
         (task[l, e].fetches > 0 /\ task[m, e].fetches > 0) => l = m
    /\ \A l \in Loads : task[l, e].fetches <= 1
    /\ el[e].applies <= 1

\* C23: with the store open, an asynchronous task is applied in the very
\* step that completes its own resolution, whatever the state of every
\* other task: it never waits, resolved, for another task.
C23_AsyncIndependent ==
  [][\A l \in Loads : \A e \in Elements :
       (db = Open /\ IsAsync(e)) =>
         /\ task'[l, e].pc # "settled"
         /\ (task[l, e].how = "-" /\ task'[l, e].how # "-") =>
              /\ task'[l, e].pc = "applied"
              /\ el'[e].indexed
              /\ el'[e].applies = el[e].applies + 1]_vars

\* An asynchronous task applied from the store or the network while
\* another task of the same load() can no longer settle.
C23_Witness ==
  \E l \in Loads : \E e \in Applied(l) : \E u \in Scanned(task, l) :
    /\ db = Open /\ IsAsync(e) /\ task[l, e].how \in {"hit", "put"}
    /\ u # e /\ task[l, u].pc = "hung"

\* C24: no synchronous element of a load() is applied while the lookup,
\* fetch, decode or put of any synchronous task of that load() is still
\* in flight.
C24_ChainAfterAllSettled ==
  \A l \in Loads :
    (Pending(l) \cap SyncOf(task, l) # {}) => (Applied(l) \cap SyncOf(task, l) = {})

\* The first ordered task, resolved by a hit, applied once the second,
\* which had to fetch and store, has settled too.
C24_Witness ==
  \E l \in Loads : \E e \in SyncOf(task, l) : \E u \in SyncOf(task, l) :
    /\ e < u
    /\ task[l, e].pc = "applied" /\ task[l, e].how = "hit"
    /\ task[l, u].pc = "settled" /\ task[l, u].how = "put"

\* The requests that change the store.
IsWrite(r) == r.op \in {"put", "delete", "clear"}

\* C25: the step in which a lookup hits leaves every record as it was and
\* issues no put, delete or clear; and no put and no eviction is ever
\* outstanding for a task that was resolved by a hit.
C25_HitLeavesStore ==
  [][/\ \A l \in Loads : \A e \in Elements :
          (task[l, e].how # "hit" /\ task'[l, e].how = "hit") =>
            /\ store' = store
            /\ SelectSeq(queue', IsWrite) = SelectSeq(Tail(queue), IsWrite)
     /\ \A i \in 1..Len(queue') :
          (queue'[i].op = "put" \/ queue'[i].by = "evict") =>
            task'[queue'[i].l, queue'[i].e].how # "hit"]_vars

\* A task applied from a record that carries an expiry other than the one
\* the task computed, the record still as the earlier visit left it.
C25_Witness ==
  \E l \in Loads : \E e \in Applied(l) :
    /\ task[l, e].how = "hit"
    /\ store[ObjKey(e)] = Entry(ObjHash(e), 1, "prev")
    /\ task[l, e].expiry # 1

\* A record a task of this page stored that has not expired.
Fresh(d) == /\ d # NoEntry /\ ~FromEarlierVisit(d)
            /\ (d.expiry = NoExpiry \/ d.expiry >= now)

\* C26: the delete issued by a lookup that found an expired record never
\* removes a fresh record that another task stored under that key.
C26_EvictsOnlyExpired ==
  [][(Next1.op = "delete" /\ Next1.by = "evict" /\ store'[Next1.key] = NoEntry)
       => ~Fresh(store[Next1.key])]_vars

\* The tasks of load() l whose _getObject promise has settled.
Settled(l) == {e \in Scanned(task, l) : task[l, e].how \in {"hit", "put", "fetchfail", "puterror"}}

\* A payload was obtained for the task: the lookup hit, or the fetch was
\* answered and its body read (whether the put then succeeded or not).
PayloadObtained(l, e) == task[l, e].how \in {"hit", "put", "puterror"}

====
